---------------------------- MODULE Spec2Model ----------------------------
(***************************************************************************)
(* Request-content segmentation engine of YL1118/extract                   *)
(* (src/content.py, extract_hencha_from_lines) and its line normalizer     *)
(* (normalize_text); the sentence extractor                                *)
(* (src/extract_scope_sentence_batch.py, extract_scope_sentences); the     *)
(* batch variant of the engine and its driver                              *)
(* (src/extract_hencha_batch.py, extract_hencha_from_lines and main); the  *)
(* two variants of the engine called on the same lines.                    *)
(*                                                                         *)
(* A line of text is a sequence of characters; a character is a short     *)
(* ASCII name of the Unicode character the source uses:                    *)
(*   "ti" U+63D0, "gong" U+4F9B             the keyword                    *)
(*   "tuo" U+62D6, "ti3" U+9AD4             OCR confusables of "ti"        *)
(*   "xia" U+4E0B, "lie" U+5217, "cheng" U+6210, "ru" U+5982,              *)
(*   "ci" U+6B21, "zi" U+8CC7, "liao" U+6599, "qing1" U+6E05,              *)
(*   "dan" U+55AE                            connective words               *)
(*   "qing" U+8ACB, "hui" U+60E0, "jing" U+656C   request markers          *)
(*   "FWCOLON" U+FF1A, "SMCOLON" U+FE55, "RATIO" U+2236, ":"               *)
(*   " ", "TAB" U+0009, "FWSPACE" U+3000, "NL" U+000A, "CR" U+000D         *)
(*   "DUN" U+3001, "FWCOMMA" U+FF0C, "FWSEMI" U+FF1B, ",", ";"             *)
(*   "(", ")", "FWLPAR" U+FF08, "FWRPAR" U+FF09                            *)
(*   "yi1".."shi2"  the ideographic numerals U+4E00 ... U+5341             *)
(*   "BULLET" U+2022, "BLACKCIRCLE" U+25CF, "WHITECIRCLE" U+25CB, "-"      *)
(* Every other name is an ordinary letter with no role in any pattern.    *)
(* Line indices i, j, start_line, end_line are 0-based as in the source;   *)
(* the line with index k is lines[k + 1].                                  *)
(***************************************************************************)
EXTENDS Integers, Sequences, FiniteSets, TLC

(***************************************************************************)
(* Bounds of the model.                                                    *)
(***************************************************************************)
\* longest document (in raw lines) drawn from LinePool
MaxLines == 4
\* longest document of the fair specification
MaxLiveLines == 3
\* longest input line of the normalizer specification
MaxNormLen == 4
\* longest text (in pieces of ScopeTokens) of the sentence extractor
MaxTokens == 4
\* longest document (in raw lines) both variants of the engine are run on
MaxTwinLines == 3
\* longest line of the specification of the trigger test
MaxTrigLen == 5
\* most files of a batch made of FilePool
MaxFiles == 3
\* longest file (in raw lines) of a batch of one file drawn from LinePool
MaxFileLines == 3

(***************************************************************************)
(* Character classes.                                                      *)
(***************************************************************************)
\* what str.strip() and the regex class \s remove
Whitespace == {" ", "TAB", "FWSPACE", "NL", "CR"}

\* the class [ \t] of normalize_text
BlankChars == {" ", "TAB"}

\* [U+4E00 U+4E8C U+4E09 U+56DB U+4E94 U+516D U+4E03 U+516B U+4E5D U+5341]
Numerals == {"yi1", "er", "san", "si", "wu", "liu", "qi", "ba", "jiu", "shi2"}

\* the class \d
Digits == {"0", "1", "2", "3", "4", "5", "6", "7", "8", "9"}

OpenParens == {"FWLPAR", "("}

CloseParens == {"FWRPAR", ")"}

Colons == {":", "FWCOLON"}

KEYWORD == <<"ti", "gong">>

(***************************************************************************)
(* Strings as sequences.                                                   *)
(***************************************************************************)
\* F(v) with v evaluated once, as a call evaluates its argument
Eval(v, F(_)) == CHOOSE r \in { F(x) : x \in {v} } : TRUE

\* s[p:] with a 1-based p
Drop(s, p) == SubSeq(s, p, Len(s))

\* w occurs in s at position p
OccursAt(s, w, p) ==
    /\ p >= 1
    /\ p + Len(w) - 1 <= Len(s)
    /\ \A q \in 1..Len(w) : s[p + q - 1] = w[q]

\* w in s
Contains(s, w) == \E p \in 1..Len(s) : OccursAt(s, w, p)

\* s.find(w), 1-based; 0 when absent
Find(s, w) ==
    IF Contains(s, w)
    THEN CHOOSE p \in 1..Len(s) :
            OccursAt(s, w, p) /\ \A q \in 1..(p - 1) : ~OccursAt(s, w, q)
    ELSE 0

\* every character of s[a..b] is in class
AllIn(s, a, b, class) == \A q \in a..b : s[q] \in class

RECURSIVE LStripSet(_, _)
\* s.lstrip(chars)
LStripSet(s, chars) ==
    IF s # <<>> /\ Head(s) \in chars THEN LStripSet(Tail(s), chars) ELSE s

RECURSIVE RStripSet(_, _)
\* s.rstrip(chars)
RStripSet(s, chars) ==
    IF s # <<>> /\ s[Len(s)] \in chars
    THEN RStripSet(SubSeq(s, 1, Len(s) - 1), chars)
    ELSE s

\* s.strip()
Strip(s) ==
    Eval(LStripSet(s, Whitespace), LAMBDA x : RStripSet(x, Whitespace))

RECURSIVE ReplaceAll(_, _, _)
\* s with its occurrence of k at p replaced by v, and the rest replaced
ReplaceFrom(s, k, v, p) ==
    SubSeq(s, 1, p - 1) \o v
        \o Eval(Drop(s, p + Len(k)), LAMBDA x : ReplaceAll(x, k, v))

\* s.replace(k, v): the non-overlapping occurrences, left to right
ReplaceAll(s, k, v) ==
    IF ~Contains(s, k) THEN s
    ELSE Eval(Find(s, k), LAMBDA p : ReplaceFrom(s, k, v, p))

\* the position of the first character of s in class; 0 when there is none
FirstIn(s, class) ==
    IF \E q \in 1..Len(s) : s[q] \in class
    THEN CHOOSE p \in 1..Len(s) :
            s[p] \in class /\ \A q \in 1..(p - 1) : s[q] \notin class
    ELSE 0

RECURSIVE CollapseBlanks(_)
\* s with its run of blanks at p collapsed, and the rest collapsed
CollapseFrom(s, p) ==
    SubSeq(s, 1, p - 1) \o <<" ">>
        \o Eval(LStripSet(Drop(s, p), BlankChars), LAMBDA x : CollapseBlanks(x))

\* re.sub(r'[ \t]+', ' ', s)
CollapseBlanks(s) ==
    IF FirstIn(s, BlankChars) = 0 THEN s
    ELSE Eval(FirstIn(s, BlankChars), LAMBDA p : CollapseFrom(s, p))

\* the replacement table of normalize_text, in insertion order
repl ==
    << << <<"FWCOLON">>, <<":">> >>,
       << <<"SMCOLON">>, <<":">> >>,
       << <<"RATIO">>, <<":">> >>,
       << <<"FWSPACE">>, <<" ">> >>,
       << <<"ti", " ", "gong">>, <<"ti", "gong">> >>,
       << <<"tuo", "gong">>, <<"ti", "gong">> >>,
       << <<"ti3", "gong">>, <<"ti", "gong">> >>,
       << <<"xia", " ", "lie">>, <<"xia", "lie">> >>,
       << <<"cheng", "lie">>, <<"xia", "lie">> >>,
       << <<"lie", "xia">>, <<"xia", "lie">> >> >>

RECURSIVE ApplyRepl(_, _)
\* for k, v in repl.items(): s = s.replace(k, v), from entry t on
ApplyRepl(s, t) ==
    IF t > Len(repl) THEN s
    ELSE Eval(ReplaceAll(s, repl[t][1], repl[t][2]), LAMBDA x : ApplyRepl(x, t + 1))

\* normalize_text(s)
normalize_text(s) ==
    Eval(ApplyRepl(s, 1), LAMBDA a : Eval(CollapseBlanks(a), LAMBDA c : Strip(c)))

(***************************************************************************)
(* The rule patterns (content.py lines 14-26).                             *)
(***************************************************************************)
\* the alternatives of STOP_HEAD
STOP_HEAD_WORDS ==
    { <<"zhu", "zhi">>, <<"shuo", "ming">>, <<"li", "you">>, <<"ban", "fa">>,
      <<"zhu4", "yi", "shi", "xiang">>, <<"fu", "jian">>, <<"chao", "song">>,
      <<"jie", "yu">>, <<"ci3", "zhi4">>, <<"jing", "qing">>,
      <<"cheng2", "ban">>, <<"shu", "ming2">> }

\* STOP_HEAD.match(line): ^(word)[::]?\s*$
STOP_HEAD(line) ==
    \E w \in STOP_HEAD_WORDS :
        /\ OccursAt(line, w, 1)
        /\ LET p == Len(w) + 1
           IN  \/ AllIn(line, p, Len(line), Whitespace)
               \/ /\ p <= Len(line)
                  /\ line[p] \in Colons
                  /\ AllIn(line, p + 1, Len(line), Whitespace)

\* ALLOW_BULLET.match(line): ^\s*[(][numeral]+[)]\s*
ALLOW_BULLET(line) ==
    \E k \in 1..Len(line) :
        /\ AllIn(line, 1, k - 1, Whitespace)
        /\ line[k] \in OpenParens
        /\ \E m \in (k + 2)..Len(line) :
              /\ AllIn(line, k + 1, m - 1, Numerals)
              /\ line[m] \in CloseParens

\* DISALLOW_BULLETS[0].match(line): ^\s*[numeral]+[DUN]\s*
DisallowNumeral(line) ==
    \E k \in 1..Len(line) :
        /\ AllIn(line, 1, k - 1, Whitespace)
        /\ \E m \in (k + 1)..Len(line) :
              /\ AllIn(line, k, m - 1, Numerals)
              /\ line[m] = "DUN"

\* DISALLOW_BULLETS[1].match(line): ^\s*\d+[.DUN)]\s*
DisallowDigit(line) ==
    \E k \in 1..Len(line) :
        /\ AllIn(line, 1, k - 1, Whitespace)
        /\ \E m \in (k + 1)..Len(line) :
              /\ AllIn(line, k, m - 1, Digits)
              /\ line[m] \in {".", "DUN", ")"}

\* DISALLOW_BULLETS[2].match(line): ^\s*[glyph]\s+
DisallowGlyph(line) ==
    \E k \in 1..(Len(line) - 1) :
        /\ AllIn(line, 1, k - 1, Whitespace)
        /\ line[k] \in {"BULLET", "BLACKCIRCLE", "WHITECIRCLE", "-"}
        /\ line[k + 1] \in Whitespace

\* is_disallowed_bullet(line)
is_disallowed_bullet(line) ==
    DisallowNumeral(line) \/ DisallowDigit(line) \/ DisallowGlyph(line)

\* the alternatives of the politeness closing
CLOSING_WORDS ==
    { <<"cha", "zhao">>, <<"he", "shi4">>, <<"fu4">>, <<"ban", "li">>,
      <<"pei", "he2">> }

\* re.search(r'(qing.*?(closing word))', line)
PolitenessClosing(line) ==
    \E p \in 1..Len(line) :
        /\ line[p] = "qing"
        /\ \E q \in (p + 1)..Len(line) :
              \E w \in CLOSING_WORDS : OccursAt(line, w, q)

\* the politeness closing left out of the stop signals
should_soft_stop_noclosing(line) ==
    \/ STOP_HEAD(line)
    \/ is_disallowed_bullet(line)

\* should_soft_stop(line)
should_soft_stop(line) ==
    \/ STOP_HEAD(line)
    \/ is_disallowed_bullet(line)
    \/ PolitenessClosing(line)

\* the alternatives of NEGATION
NEGATION_WORDS ==
    { <<"bu", "de", "ti", "gong">>, <<"wu2", "xu", "ti", "gong">>,
      <<"wu3", "xu", "ti", "gong">>, <<"bu", "xu", "ti", "gong">> }

\* NEGATION.search(line)
NEGATION(line) == \E w \in NEGATION_WORDS : Contains(line, w)

\* the connective words of TRIGGER and of tail_after_provide
CONNECTIVES ==
    { <<"ru", "xia">>, <<"xia", "lie">>, <<"ru", "ci">>, <<"zi", "liao">>,
      <<"qing1", "dan">> }

\* the shape with its request marker required, not optional
TRIGGER_marker(line) ==
    \E c \in 1..Len(line) :
        /\ line[c] = "qing"
        /\ \E e \in (c + 1)..Len(line) : OccursAt(line, KEYWORD, e)

\* TRIGGER.search(line):
\* (?:hui qing|jing qing)?(?:.*?)(?:qing)?(?:.*?)(ti gong)(?:.*?(connective))?
\* a is where the match starts, b the end of the optional marker, c the end
\* of the first gap, d the end of the optional "qing", e the keyword
TRIGGER(line) ==
    \E a \in 1..(Len(line) + 1) :
      \E b \in {a, a + 2} :
        /\ (b = a + 2) =>
              (OccursAt(line, <<"hui", "qing">>, a)
                  \/ OccursAt(line, <<"jing", "qing">>, a))
        /\ \E c \in b..(Len(line) + 1) :
             \E d \in {c, c + 1} :
               /\ (d = c + 1) => OccursAt(line, <<"qing">>, c)
               /\ \E e \in d..(Len(line) + 1) : OccursAt(line, KEYWORD, e)

\* the negation test left out of the trigger test
IsTrigger_nonegation(line) ==
    Contains(line, KEYWORD) /\ TRIGGER(line)

\* the trigger test of the scan loop (line 68)
IsTrigger(line) ==
    IF Contains(line, KEYWORD) /\ TRIGGER(line) THEN ~NEGATION(line) ELSE FALSE

\* the characters lstrip removes in tail_after_provide
TAIL_LSTRIP == {" ", ":", "FWCOLON", "DUN", "FWCOMMA", ",", "FWSEMI", ";"}

RECURSIVE StripConnective_repeat(_)
\* every leading connective word removed, not only the first
StripConnective_repeat(post) ==
    IF \E w \in CONNECTIVES : OccursAt(post, w, 1)
    THEN LET w == CHOOSE w \in CONNECTIVES : OccursAt(post, w, 1)
             r == Drop(post, Len(w) + 1)
         IN  StripConnective_repeat(IF r # <<>> /\ Head(r) \in Colons THEN Tail(r) ELSE r)
    ELSE post

\* no leading connective word removed
StripConnective_none(post) == post

\* re.sub(r'^(connective)[::]?', '', post)
StripConnective(post) ==
    IF \E w \in CONNECTIVES : OccursAt(post, w, 1)
    THEN LET w == CHOOSE w \in CONNECTIVES : OccursAt(post, w, 1)
             r == Drop(post, Len(w) + 1)
         IN  IF r # <<>> /\ Head(r) \in Colons THEN Tail(r) ELSE r
    ELSE post

\* tail_after_provide(line)
tail_after_provide(line) ==
    IF ~Contains(line, KEYWORD) THEN <<>>
    ELSE Eval(Drop(line, Find(line, KEYWORD) + Len(KEYWORD)),
              LAMBDA post :
                Eval(StripConnective(post),
                     LAMBDA t : Eval(LStripSet(t, TAIL_LSTRIP), LAMBDA u : Strip(u))))

\* the continuation punctuation [,:;DUN FWCOLON FWCOMMA FWSEMI]
CONT_PUNCT == {",", ":", ";", "DUN", "FWCOLON", "FWCOMMA", "FWSEMI"}

\* re.search(r'[,:;...]$', prev): at the end, or before one final newline
EndsWithContPunct(prev) ==
    \/ prev # <<>> /\ prev[Len(prev)] \in CONT_PUNCT
    \/ /\ Len(prev) >= 2
       /\ prev[Len(prev)] = "NL"
       /\ prev[Len(prev) - 1] \in CONT_PUNCT

\* the length from which a line continues a segment on its own (line 99)
MinContinueLen == 8

\* the length of the current line left out of the continuation test
NaturalContinuation_punctonly(prev, cur) == EndsWithContPunct(prev)

\* the natural-continuation test (line 99)
NaturalContinuation(prev, cur) ==
    EndsWithContPunct(prev) \/ (Len(cur) >= MinContinueLen /\ ~STOP_HEAD(cur))

\* the soft-stop test moved in front of the allowed-bullet test
Branch_stopfirst(prev, cur) ==
    IF should_soft_stop(cur) THEN "soft stop"
    ELSE IF ALLOW_BULLET(cur) THEN "allow bullet"
    ELSE IF NaturalContinuation(prev, cur)
         THEN IF is_disallowed_bullet(cur)
              THEN "end by disallowed bullet"
              ELSE "continue"
         ELSE "end segment"

\* the default rule appends the line where it should end the segment
Branch_nodefault(prev, cur) ==
    IF ALLOW_BULLET(cur) THEN "allow bullet"
    ELSE IF should_soft_stop(cur) THEN "soft stop"
    ELSE IF NaturalContinuation(prev, cur) /\ is_disallowed_bullet(cur)
         THEN "end by disallowed bullet"
         ELSE "continue"

\* the natural-continuation rule moved in front of the soft-stop rule
Branch_naturalfirst(prev, cur) ==
    IF ALLOW_BULLET(cur) THEN "allow bullet"
    ELSE IF NaturalContinuation(prev, cur)
         THEN IF is_disallowed_bullet(cur)
              THEN "end by disallowed bullet"
              ELSE "continue"
         ELSE IF should_soft_stop(cur) THEN "soft stop" ELSE "end segment"

\* a line that qualifies as a trigger ends the segment
Branch_triggerstops(prev, cur) ==
    IF IsTrigger(cur) THEN "end segment"
    ELSE IF ALLOW_BULLET(cur) THEN "allow bullet"
    ELSE IF should_soft_stop(cur) THEN "soft stop"
    ELSE IF NaturalContinuation(prev, cur)
         THEN IF is_disallowed_bullet(cur)
              THEN "end by disallowed bullet"
              ELSE "continue"
         ELSE "end segment"

\* the rule the inner loop applies to cur, first match wins (lines 83-113)
Branch(prev, cur) ==
    IF ALLOW_BULLET(cur) THEN "allow bullet"
    ELSE IF should_soft_stop(cur) THEN "soft stop"
    ELSE IF NaturalContinuation(prev, cur)
         THEN IF is_disallowed_bullet(cur)
              THEN "end by disallowed bullet"
              ELSE "continue"
         ELSE "end segment"

RECURSIVE JoinLines(_)
\* '\n'.join(chunk)
JoinLines(chunk) ==
    IF chunk = <<>> THEN <<>>
    ELSE IF Len(chunk) = 1 THEN chunk[1]
         ELSE chunk[1] \o <<"NL">> \o JoinLines(Tail(chunk))

(***************************************************************************)
(* Input lines.  Raw lines are what the caller hands over: readlines()     *)
(* keeps the line end, splitlines() does not.                              *)
(***************************************************************************)
\* a line of blanks
L_BLANK == <<" ", "NL">>

\* "qing ti gong ru xia FWCOLON": a trigger whose same-line tail is empty
L_TRIG_EMPTY == <<"qing", "ti", "gong", "ru", "xia", "FWCOLON">>

\* "qing tuo gong A": a trigger (after normalization) with the tail "A"
L_TRIG_SHORT == <<"qing", "tuo", "gong", "A", "NL">>

\* "shuo ming FWCOLON": a stop header
L_STOP == <<"shuo", "ming", "FWCOLON">>

\* an allowed bullet that is a politeness closing as well
L_ALLOW_CLOSING == <<"FWLPAR", "san", "FWRPAR", "qing", "cha", "zhao", "NL">>

\* a negated request, 6 characters
L_NEG == <<"wu2", "xu", "ti", "gong", "zi", "liao">>

\* a disallowed bullet that holds the keyword, with the tail "B:"
L_DISALLOW_TRIG ==
    <<"yi1", "DUN", "qing", "ti", "gong", "B", "FWCOLON">>

\* ten ordinary characters (the text of line 153 of the demo text)
L_LONG ==
    <<"jin", "san", "nian", "du", "cai", "wu4", "bao", "biao", "ying", "ben">>

\* a politeness closing, 3 characters
L_CLOSING == <<"qing", "cha", "zhao">>

LinePool ==
    { L_BLANK, L_TRIG_EMPTY, L_TRIG_SHORT, L_STOP, L_ALLOW_CLOSING, L_NEG,
      L_DISALLOW_TRIG, L_LONG, L_CLOSING }

\* the lines of the demo text (lines 150-156)
L_DEMO_SUBJECT ==
    <<"zhu", "zhi", "FWCOLON", "han", "qing", "ti", "gong", "xia", "lie",
      "zi", "liao">>

L_DEMO_ITEM ==
    <<"yi1", "DUN", "wei", "ban", "li", "xiang1", "guan", "ye", "wu4",
      "FWCOMMA", "jing", "qing", "gui", "dan", "wei4", "ti", "gong", "ru",
      "xia", "FWCOLON">>

L_DEMO_BULLET1 ==
    <<"FWLPAR", "yi1", "FWRPAR">> \o L_LONG

L_DEMO_BULLET2 ==
    <<"FWLPAR", "er", "FWRPAR", "nei", "kong", "ji", "he", "bao", "gao">>

L_DEMO_ATTENTION == <<"zhu4", "yi", "shi", "xiang", "FWCOLON">>

L_DEMO_NUMBERED ==
    <<"1", ".", " ", "qing", "yu2", "9", "/", "2", "0", "qian", "hui2", "fu4",
      "JUHAO">>

\* the demo text of main()
DemoText ==
    << L_DEMO_SUBJECT, L_STOP, L_DEMO_ITEM, L_DEMO_BULLET1, L_DEMO_BULLET2,
       L_DEMO_ATTENTION, L_DEMO_NUMBERED >>

\* the demo text without its third line: the six-line example
SixLineExample ==
    << L_DEMO_SUBJECT, L_STOP, L_DEMO_BULLET1, L_DEMO_BULLET2,
       L_DEMO_ATTENTION, L_DEMO_NUMBERED >>

\* an allowed bullet that holds the keyword
L_ALLOW_TRIG == <<"FWLPAR", "yi1", "FWRPAR", "qing", "ti", "gong", "B">>

\* four lines that each hold the keyword: the first with an empty tail and a
\* final colon, a short one, an allowed bullet, one of 11 characters
TriggerRun == << L_TRIG_EMPTY, L_TRIG_SHORT, L_ALLOW_TRIG, L_DEMO_SUBJECT >>

\* the documents of at most k lines over LinePool
DocsUpTo(k) == UNION { [1..m -> LinePool] : m \in 0..k }

(***************************************************************************)
(* State of one call of extract_hencha_from_lines, of two successive calls  *)
(* of normalize_text, of one call of extract_scope_sentences and of one    *)
(* batch run of extract_hencha_batch.main.                                 *)
(***************************************************************************)
VARIABLES
    raw,        \* the argument lines
    lines,      \* the normalized, non-blank lines (line 59)
    pc,         \* "start", "scan" (IDLE), "accum" (ACCUMULATING), "done", "error"
    i,          \* the outer cursor
    j,          \* the inner cursor
    chunk,      \* the accumulator
    results,    \* the segments recorded so far
    result,     \* the returned record
    ev,         \* the branch the last step took (what verbose mode reports)
    log,        \* the lines looked at so far, in order: <<"scan", i>> for a
                \* trigger test (line 67), <<rule, j>> for a rule applied to
                \* line j (lines 86, 94, 102, 106, 112)
    nin,        \* normalizer: the input line
    once,       \* normalizer: normalize_text(nin)
    twice,      \* normalizer: normalize_text(once)
    npc,        \* normalizer: "idle", "in", "once", "twice"
    text,       \* sentence extractor: the text (normalized by its first step)
    delims,     \* sentence extractor: the delimiter characters
    matches,    \* sentence extractor: the keyword hits, spans <<start, end>>
    mpos,       \* sentence extractor: the hit the loop is at (1-based)
    sentence_index_map, \* sentence extractor: the records, in insertion order
    sentences,  \* sentence extractor: the returned list
    spc,        \* sentence extractor: "idle", "call", "loop", "done"
    paths,      \* batch: what reading each path gives, in path order
    fpos,       \* batch: the path the loop is at (1-based)
    records,    \* batch: the records appended so far; twin run: what each
                \* variant returned and logged
    bpc         \* batch: "idle", "next", "extract", "done"; twin run:
                \* "content", "batch", "both"

vars ==
    <<raw, lines, pc, i, j, chunk, results, result, ev, log, nin, once, twice, npc,
      text, delims, matches, mpos, sentence_index_map, sentences, spc,
      paths, fpos, records, bpc>>

scanVars == <<raw, lines, pc, i, j, chunk, results, result, ev, log>>

normVars == <<nin, once, twice, npc>>

scopeVars == <<text, delims, matches, mpos, sentence_index_map, sentences, spc>>

batchVars == <<paths, fpos, records, bpc>>

\* what a call of extract_hencha_from_lines leaves alone
otherVars == <<normVars, scopeVars, batchVars>>

\* no call of extract_scope_sentences is under way
ScopeIdle ==
    /\ text = <<>>
    /\ delims = <<>>
    /\ matches = <<>>
    /\ mpos = 0
    /\ sentence_index_map = <<>>
    /\ sentences = <<>>
    /\ spc = "idle"

\* no batch run is under way
BatchIdle ==
    /\ paths = <<>>
    /\ fpos = 0
    /\ records = <<>>
    /\ bpc = "idle"

\* no call of normalize_text is under way
NormIdle ==
    /\ nin = <<>>
    /\ once = <<>>
    /\ twice = <<>>
    /\ npc = "idle"

n == Len(lines)

\* lines[k] of the source
LineAt(k) == lines[k + 1]

\* l.rstrip("\r\n")
RStripEol(l) == RStripSet(l, {"CR", "NL"})

RECURSIVE PrepareLines(_)
\* [normalize_text(l.rstrip("\r\n")) for l in lines if l and l.strip()]
PrepareLines(ls) ==
    IF ls = <<>> THEN <<>>
    ELSE IF Head(ls) # <<>> /\ Strip(Head(ls)) # <<>>
         THEN <<Eval(RStripEol(Head(ls)), LAMBDA l : normalize_text(l))>>
                 \o PrepareLines(Tail(ls))
         ELSE PrepareLines(Tail(ls))

\* {'value': None, 'alternatives': [], 'segments': []}; a value is <<v>>, None is <<>>
EmptyResult == [value |-> <<>>, alternatives |-> <<>>, segments |-> <<>>]

\* the tail appended without the `if post:` test
SeedChunk_always(line) == <<tail_after_provide(line)>>

\* the seed of the accumulator (lines 71-74)
SeedChunk(line) ==
    Eval(tail_after_provide(line),
         LAMBDA post : IF post # <<>> THEN <<post>> ELSE <<>>)

\* the segment record (lines 116-120)
Segment(start, stop, ch) ==
    [start_line |-> start, end_line |-> stop - 1,
     value |-> Eval(JoinLines(ch), LAMBDA v : Strip(v))]

\* the segment recorded whatever the accumulator holds
ChunkNonEmpty_always(ch) == TRUE

\* `if chunk:` (line 115)
ChunkNonEmpty(ch) == ch # <<>>

\* the scan resumes one line after the trigger, whatever was consumed
ResumeAt_next(start, stop) == start + 1

\* the scan resumes at the last line the inner loop consumed
ResumeAt_back(start, stop) == stop - 1

\* the scan resumes after the line that stopped the segment
ResumeAt_skip(start, stop) == stop + 1

\* the scan resumes at the last line the inner loop consumed, when there is one
ResumeAt_rescan(start, stop) == IF stop > start + 1 THEN stop - 1 ELSE stop

\* where the outer scan resumes after a trigger (line 125)
ResumeAt(start, stop) == stop

\* lines 115-126: record the segment and resume the outer scan
Finalize(why) ==
    /\ results' = IF ChunkNonEmpty(chunk)
                  THEN Append(results, Segment(i, j, chunk))
                  ELSE results
    /\ i' = ResumeAt(i, j)
    /\ pc' = "scan"
    /\ ev' = why
    /\ log' = IF j < n THEN Append(log, <<why, j>>) ELSE log
    /\ UNCHANGED <<raw, lines, j, chunk, result>>
    /\ UNCHANGED otherVars

\* prev = lines[j-1] if j-1 >= 0 else '' (line 97)
Prev == IF j - 1 >= 0 THEN LineAt(j - 1) ELSE <<>>

\* the state at the call, for a document of docs
InitWith(docs) ==
    /\ raw \in docs
    /\ lines = <<>>
    /\ pc = "start"
    /\ i = 0
    /\ j = 0
    /\ chunk = <<>>
    /\ results = <<>>
    /\ result = EmptyResult
    /\ ev = "call"
    /\ log = <<>>
    /\ NormIdle
    /\ ScopeIdle
    /\ BatchIdle

Init == InitWith(DocsUpTo(MaxLines) \cup {DemoText, SixLineExample, TriggerRun})

\* lines 59-62
Prepare ==
    /\ pc = "start"
    /\ lines' = PrepareLines(raw)
    /\ pc' = "scan"
    /\ ev' = "prepared"
    /\ UNCHANGED <<raw, i, j, chunk, results, result, log>>
    /\ UNCHANGED otherVars

\* lines 64-68, 127: a line that does not trigger
ScanSkip ==
    /\ pc = "scan"
    /\ i < n
    /\ ~IsTrigger(LineAt(i))
    /\ i' = i + 1
    /\ ev' = "scan"
    /\ log' = Append(log, <<"scan", i>>)
    /\ UNCHANGED <<raw, lines, pc, j, chunk, results, result>>
    /\ UNCHANGED otherVars

\* lines 68-78: a trigger line, IDLE -> ACCUMULATING
TriggerEnter ==
    /\ pc = "scan"
    /\ i < n
    /\ IsTrigger(LineAt(i))
    /\ chunk' = SeedChunk(LineAt(i))
    /\ j' = i + 1
    /\ pc' = "accum"
    /\ ev' = "trigger"
    /\ log' = Append(log, <<"scan", i>>)
    /\ UNCHANGED <<raw, lines, i, results, result>>
    /\ UNCHANGED otherVars

\* lines 83-88: rule 1
AllowBullet ==
    /\ pc = "accum"
    /\ j < n
    /\ Branch(Prev, LineAt(j)) = "allow bullet"
    /\ chunk' = Append(chunk, LineAt(j))
    /\ j' = j + 1
    /\ ev' = "allow bullet"
    /\ log' = Append(log, <<"allow bullet", j>>)
    /\ UNCHANGED <<raw, lines, pc, i, results, result>>
    /\ UNCHANGED otherVars

\* lines 91-95, 115-126: rule 2
SoftStop ==
    /\ pc = "accum"
    /\ j < n
    /\ Branch(Prev, LineAt(j)) = "soft stop"
    /\ Finalize("soft stop")

\* lines 97-108, 115-126: rule 3
NaturalContinue ==
    /\ pc = "accum"
    /\ j < n
    /\ Branch(Prev, LineAt(j)) \in {"continue", "end by disallowed bullet"}
    /\ IF Branch(Prev, LineAt(j)) = "end by disallowed bullet"
       THEN Finalize("end by disallowed bullet")
       ELSE /\ chunk' = Append(chunk, LineAt(j))
            /\ j' = j + 1
            /\ ev' = "continue"
            /\ log' = Append(log, <<"continue", j>>)
            /\ UNCHANGED <<raw, lines, pc, i, results, result>>
            /\ UNCHANGED otherVars

\* lines 110-113, 115-126: rule 4
DefaultStop ==
    /\ pc = "accum"
    /\ j < n
    /\ Branch(Prev, LineAt(j)) = "end segment"
    /\ Finalize("end segment")

\* line 79 false, 115-126: the inner loop runs off the document
EndOfDocument ==
    /\ pc = "accum"
    /\ j >= n
    /\ Finalize("end of document")

\* the guard left out: the record is always built from results[0]
NoResults_never(rs) == FALSE

\* `if not results:` (line 129)
NoResults(rs) == rs = <<>>

\* rs[a:b] of the source, a and b 0-based and not negative
Slice(rs, a, b) ==
    LET hi == IF b < Len(rs) THEN b ELSE Len(rs)
    IN  IF a >= hi THEN <<>> ELSE SubSeq(rs, a + 1, hi)

\* every later segment is an alternative: results[1:]
Alternatives_all(rs) ==
    [k \in 1..Len(Slice(rs, 1, Len(rs))) |-> Slice(rs, 1, Len(rs))[k].value]

\* [r['value'] for r in results[1:3]] (line 135)
Alternatives(rs) ==
    [k \in 1..Len(Slice(rs, 1, 3)) |-> Slice(rs, 1, 3)[k].value]

\* lines 129-137
Return ==
    /\ pc = "scan"
    /\ i >= n
    /\ IF NoResults(results)
       THEN /\ result' = EmptyResult
            /\ pc' = "done"
       ELSE IF Len(results) >= 1
            THEN /\ result' = [value |-> <<results[1].value>>,
                               alternatives |-> Alternatives(results),
                               segments |-> results]
                 /\ pc' = "done"
            ELSE \* results[0] of an empty list: IndexError
                 /\ result' = result
                 /\ pc' = "error"
    /\ ev' = "return"
    /\ UNCHANGED <<raw, lines, i, j, chunk, results, log>>
    /\ UNCHANGED otherVars

Next ==
    \/ Prepare
    \/ ScanSkip
    \/ TriggerEnter
    \/ AllowBullet
    \/ SoftStop
    \/ NaturalContinue
    \/ DefaultStop
    \/ EndOfDocument
    \/ Return

Spec == Init /\ [][Next]_vars

\* the scan under the scheduling of a sequential program: it keeps stepping
LiveInit == InitWith(DocsUpTo(MaxLiveLines) \cup {DemoText, SixLineExample})

LiveSpec == LiveInit /\ [][Next]_vars /\ WF_vars(Next)

(***************************************************************************)
(* The scan of documents of one line, the line made of the characters the  *)
(* trigger test looks for.                                                 *)
(***************************************************************************)
\* the keyword, the request marker, a negation phrase, an ordinary letter
TrigAlphabet == {"ti", "gong", "qing", "bu", "de", "A"}

TrigLines == UNION { [1..m -> TrigAlphabet] : m \in 1..MaxTrigLen }

\* the documents of one line of TrigLines, and those of up to two pool lines
TrigInit == InitWith({ <<l>> : l \in TrigLines } \cup DocsUpTo(2))

TrigSpec == TrigInit /\ [][Next]_vars

(***************************************************************************)
(* normalize_text applied once and once more to its own output.            *)
(***************************************************************************)
NormAlphabet ==
    {"ti", "gong", "tuo", "xia", "lie", "cheng", " ", "TAB", "FWSPACE", "FWCOLON"}

NormInputs == UNION { [1..m -> NormAlphabet] : m \in 0..MaxNormLen }

NormInit ==
    /\ nin \in NormInputs
    /\ once = <<>>
    /\ twice = <<>>
    /\ npc = "in"
    /\ raw = <<>>
    /\ lines = <<>>
    /\ pc = "idle"
    /\ i = 0
    /\ j = 0
    /\ chunk = <<>>
    /\ results = <<>>
    /\ result = EmptyResult
    /\ ev = "idle"
    /\ log = <<>>
    /\ ScopeIdle
    /\ BatchIdle

\* once = normalize_text(nin)
NormOnce ==
    /\ npc = "in"
    /\ once' = normalize_text(nin)
    /\ npc' = "once"
    /\ UNCHANGED <<nin, twice>>
    /\ UNCHANGED <<scanVars, scopeVars, batchVars>>

\* twice = normalize_text(once)
NormTwice ==
    /\ npc = "once"
    /\ twice' = normalize_text(once)
    /\ npc' = "twice"
    /\ UNCHANGED <<nin, once>>
    /\ UNCHANGED <<scanVars, scopeVars, batchVars>>

NormNext ==
    \/ NormOnce
    \/ NormTwice

NormSpec == NormInit /\ [][NormNext]_vars

(***************************************************************************)
(* Sentence extractor (src/extract_scope_sentence_batch.py).  Positions    *)
(* are 0-based as in the source: the character at position p of s is       *)
(* s[p + 1], and a span <<a, b>> covers the positions a .. b - 1.          *)
(* Characters: "kou" U+6263, "ya" U+62BC, "fan" U+7BC4, "wei2" U+570D,     *)
(* "bu" U+4E0D, "han2" U+542B, "ben" U+672C, "ming4" U+547D, "ling"        *)
(* U+4EE4, "zhi1" U+4E4B, "xiao" U+6548, "li4" U+529B, "wu3" U+6BCB,       *)
(* "wu2" U+7121, "yong" U+5EB8, "zhi2" U+57F7, "xing" U+884C, "fei"        *)
(* U+975E, "shu3" U+5C6C; "JUHAO" U+3002, "FWDOT" U+FF0E, "HWJUHAO"        *)
(* U+FF61, "SMDOT" U+FE52, "." U+002E.                                     *)
(***************************************************************************)
\* the words KEYWORD_REGEX matches; no two of them match at one position
KEYWORD_REGEX ==
    { <<"kou", "ya", "fan", "wei2", "bu", "han2">>,
      <<"ben", "ming4", "ling", "zhi1", "xiao", "li4">>,
      <<"wu3", "yong", "zhi2", "xing", "kou", "ya">>,
      <<"wu2", "yong", "zhi2", "xing", "kou", "ya">>,
      <<"wu3", "yong", "kou", "ya">>,
      <<"wu2", "yong", "kou", "ya">>,
      <<"fei", "shu3", "zhi2", "xing", "ming4", "ling", "kou", "ya", "fan",
        "wei2">> }

DEFAULT_DELIMS == <<"JUHAO", "FWDOT", "HWJUHAO">>

\* the word KEYWORD_REGEX matches at position p of s; <<>> when there is none
MatchAt(s, p) ==
    IF \E w \in KEYWORD_REGEX : OccursAt(s, w, p + 1)
    THEN CHOOSE w \in KEYWORD_REGEX : OccursAt(s, w, p + 1)
    ELSE <<>>

RECURSIVE finditer(_, _)
\* the spans of KEYWORD_REGEX.finditer(s) from position p on: leftmost first,
\* not overlapping
finditer(s, p) ==
    IF p >= Len(s) THEN <<>>
    ELSE Eval(MatchAt(s, p),
              LAMBDA w : IF w # <<>>
                         THEN << <<p, p + Len(w)>> >> \o finditer(s, p + Len(w))
                         ELSE finditer(s, p + 1))

\* the replacement table of the extractor's normalize_text, in insertion order
scope_repl ==
    << << <<"SMDOT">>, <<"FWDOT">> >>,
       << <<"FWDOT">>, <<"FWDOT">> >>,
       << <<"FWSPACE">>, <<" ">> >> >>

RECURSIVE ApplyScopeRepl(_, _)
\* for k, v in repl.items(): s = s.replace(k, v), from entry t on
ApplyScopeRepl(s, t) ==
    IF t > Len(scope_repl) THEN s
    ELSE Eval(ReplaceAll(s, scope_repl[t][1], scope_repl[t][2]),
              LAMBDA x : ApplyScopeRepl(x, t + 1))

\* normalize_text(s) of the sentence extractor
scope_normalize_text(s) == ApplyScopeRepl(s, 1)

Max(S) == CHOOSE x \in S : \A y \in S : y <= x

Min(S) == CHOOSE x \in S : \A y \in S : x <= y

\* s.rfind(d, lo, hi) for a character d: -1 when absent
str_rfind(s, d, lo, hi) ==
    LET P == { q \in lo..(hi - 1) : q < Len(s) /\ s[q + 1] = d }
    IN  IF P = {} THEN -1 ELSE Max(P)

\* s.find(d, lo) for a character d: -1 when absent
str_find(s, d, lo) ==
    LET P == { q \in lo..(Len(s) - 1) : s[q + 1] = d }
    IN  IF P = {} THEN -1 ELSE Min(P)

\* no delimiter looked for to the left of the hit
LeftDelim_none(s, start_idx, ds) == -1

\* lines 77-78: the nearest delimiter to the left of start_idx, or -1
LeftDelim(s, start_idx, ds) ==
    LET left_positions ==
            { str_rfind(s, ds[k], 0, start_idx) : k \in 1..Len(ds) } \ {-1}
    IN  IF left_positions = {} THEN -1 ELSE Max(left_positions)

\* the farthest delimiter to the right taken, not the nearest
RightDelim_farthest(s, end_idx, ds) ==
    LET right_candidates ==
            { str_find(s, ds[k], end_idx) : k \in 1..Len(ds) } \ {-1}
    IN  IF right_candidates = {} THEN -1 ELSE Max(right_candidates)

\* lines 80-82: the nearest delimiter at or to the right of end_idx, or -1
RightDelim(s, end_idx, ds) ==
    LET right_candidates ==
            { str_find(s, ds[k], end_idx) : k \in 1..Len(ds) } \ {-1}
    IN  IF right_candidates = {} THEN -1 ELSE Min(right_candidates)

\* find_sentence_bounds(text, match_span, delims): <<sent_start, sent_end>>
find_sentence_bounds(s, match_span, ds) ==
    LET left == LeftDelim(s, match_span[1], ds)
        right == RightDelim(s, match_span[2], ds)
    IN  << IF left # -1 THEN left + 1 ELSE 0,
           IF right # -1 THEN right ELSE Len(s) - 1 >>

\* s[a:b] for 0 <= a
PySlice(s, a, b) == SubSeq(s, a + 1, IF b < Len(s) THEN b ELSE Len(s))

\* the record of a sentence at its first hit (lines 107-113)
SentenceRecord(s, key, span) ==
    [sentence |-> Strip(PySlice(s, key[1], key[2] + 1)),
     start |-> key[1],
     end |-> key[2],
     matches |-> << PySlice(s, span[1], span[2]) >>,
     match_spans |-> << span >>]

\* the key never found: every hit opens a record of its own
KeyIndex_never(map, key) == 0

\* where key is in the map (1-based); 0 when `key not in sentence_index_map`
KeyIndex(map, key) ==
    IF \E k \in 1..Len(map) : <<map[k].start, map[k].end>> = key
    THEN CHOOSE k \in 1..Len(map) : <<map[k].start, map[k].end>> = key
    ELSE 0

\* the order of tuples <<start, end>>
KeyLess(a, b) == a[1] < b[1] \/ (a[1] = b[1] /\ a[2] < b[2])

RemoveAt(seq, k) == SubSeq(seq, 1, k - 1) \o SubSeq(seq, k + 1, Len(seq))

\* the first record no other record is below
FirstLeast(seq) ==
    CHOOSE k \in 1..Len(seq) :
        /\ \A m \in 1..Len(seq) :
              ~KeyLess(<<seq[m].start, seq[m].end>>, <<seq[k].start, seq[k].end>>)
        /\ \A m \in 1..(k - 1) :
              KeyLess(<<seq[k].start, seq[k].end>>, <<seq[m].start, seq[m].end>>)

\* the first record no other record is above
FirstGreatest(seq) ==
    CHOOSE k \in 1..Len(seq) :
        /\ \A m \in 1..Len(seq) :
              ~KeyLess(<<seq[k].start, seq[k].end>>, <<seq[m].start, seq[m].end>>)
        /\ \A m \in 1..(k - 1) :
              KeyLess(<<seq[m].start, seq[m].end>>, <<seq[k].start, seq[k].end>>)

RECURSIVE SortedByKey_reversed(_)
\* the records from the greatest key down
SortedByKey_reversed(seq) ==
    IF seq = <<>> THEN <<>>
    ELSE Eval(FirstGreatest(seq),
              LAMBDA k : <<seq[k]>> \o SortedByKey_reversed(RemoveAt(seq, k)))

RECURSIVE SortedByKey(_)
\* [map[key] for key in sorted(map.keys())] (lines 125-126)
SortedByKey(seq) ==
    IF seq = <<>> THEN <<>>
    ELSE Eval(FirstLeast(seq),
              LAMBDA k : <<seq[k]>> \o SortedByKey(RemoveAt(seq, k)))

\* the pieces the texts of the extractor are put together from
T_JUHAO == <<"JUHAO">>

T_SMDOT == <<"SMDOT">>

T_DOT == <<".">>

T_LETTER == <<"NL", "A">>

T_WUYONG == <<"wu3", "yong", "kou", "ya">>

T_FEISHU == <<"fei", "shu3", "zhi2", "xing", "ming4", "ling">>

T_KOUYA == <<"kou", "ya", "fan", "wei2">>

T_BUHAN == <<"bu", "han2">>

ScopeTokens ==
    { T_JUHAO, T_SMDOT, T_DOT, T_LETTER, T_WUYONG, T_FEISHU, T_KOUYA, T_BUHAN }

RECURSIVE Flatten(_)
\* the pieces of ts one after the other
Flatten(ts) == IF ts = <<>> THEN <<>> ELSE Head(ts) \o Flatten(Tail(ts))

\* the texts of at most k pieces
ScopeTexts(k) == { Flatten(ts) : ts \in UNION { [1..m -> ScopeTokens] : m \in 0..k } }

\* the default delimiters, and the delimiters of the --delims help text
DelimSets == { DEFAULT_DELIMS, <<"JUHAO", "FWDOT", ".", "HWJUHAO">> }

\* no call of extract_hencha_from_lines is under way
EngineIdle ==
    /\ raw = <<>>
    /\ lines = <<>>
    /\ pc = "idle"
    /\ i = 0
    /\ j = 0
    /\ chunk = <<>>
    /\ results = <<>>
    /\ result = EmptyResult
    /\ ev = "idle"
    /\ log = <<>>

\* the state at the call of extract_scope_sentences(text, delims)
ScopeInit ==
    /\ text \in ScopeTexts(MaxTokens)
    /\ delims \in DelimSets
    /\ matches = <<>>
    /\ mpos = 0
    /\ sentence_index_map = <<>>
    /\ sentences = <<>>
    /\ spc = "call"
    /\ EngineIdle
    /\ NormIdle
    /\ BatchIdle

\* lines 90-99: normalize, find every keyword hit
ScopeStart ==
    /\ spc = "call"
    /\ text' = scope_normalize_text(text)
    /\ matches' = Eval(scope_normalize_text(text), LAMBDA t : finditer(t, 0))
    /\ mpos' = 1
    /\ spc' = "loop"
    /\ UNCHANGED <<delims, sentence_index_map, sentences>>
    /\ UNCHANGED <<scanVars, normVars, batchVars>>

\* the map after the hit span (lines 102-116)
MergeHit(map, s, ds, span) ==
    LET key == find_sentence_bounds(s, span, ds)
        k == KeyIndex(map, key)
    IN  IF k = 0
        THEN Append(map, SentenceRecord(s, key, span))
        ELSE [map EXCEPT ![k].matches = Append(@, PySlice(s, span[1], span[2])),
                         ![k].match_spans = Append(@, span)]

\* lines 101-116: one turn of the loop over the hits
ScopeHit ==
    /\ spc = "loop"
    /\ mpos <= Len(matches)
    /\ sentence_index_map' = MergeHit(sentence_index_map, text, delims, matches[mpos])
    /\ mpos' = mpos + 1
    /\ UNCHANGED <<text, delims, matches, sentences, spc>>
    /\ UNCHANGED <<scanVars, normVars, batchVars>>

\* lines 125-128: the records in key order, returned
ScopeSort ==
    /\ spc = "loop"
    /\ mpos > Len(matches)
    /\ sentences' = SortedByKey(sentence_index_map)
    /\ spc' = "done"
    /\ UNCHANGED <<text, delims, matches, mpos, sentence_index_map>>
    /\ UNCHANGED <<scanVars, normVars, batchVars>>

ScopeNext ==
    \/ ScopeStart
    \/ ScopeHit
    \/ ScopeSort

ScopeSpec == ScopeInit /\ [][ScopeNext]_vars

\* a value of --delims one of whose characters, U+7BC4, occurs in keywords
KEYWORD_DELIMS == <<"JUHAO", "fan">>

\* the state at the call of extract_scope_sentences(text, delims), delims
\* being the default or KEYWORD_DELIMS
DelimInit ==
    /\ text \in ScopeTexts(MaxTokens)
    /\ delims \in { DEFAULT_DELIMS, KEYWORD_DELIMS }
    /\ matches = <<>>
    /\ mpos = 0
    /\ sentence_index_map = <<>>
    /\ sentences = <<>>
    /\ spc = "call"
    /\ EngineIdle
    /\ NormIdle
    /\ BatchIdle

DelimSpec == DelimInit /\ [][ScopeNext]_vars

(***************************************************************************)
(* Batch variant (src/extract_hencha_batch.py): the same scan, the         *)
(* accumulator seeded with the trigger line from the keyword on, run by    *)
(* main over the files of a directory.  A path is named by its place in    *)
(* the sorted list of paths.                                               *)
(***************************************************************************)
\* split_provide(line): <<sub, tail>>
split_provide(line) ==
    IF ~Contains(line, KEYWORD) THEN << <<>>, <<>> >>
    ELSE LET sub == Drop(line, Find(line, KEYWORD))
             tail == Drop(sub, Len(KEYWORD) + 1)
         IN  << Strip(sub),
                Strip(LStripSet(StripConnective(tail), TAIL_LSTRIP)) >>

\* nothing of the trigger line appended
SeedChunkBatch_none(line) == <<>>

\* the tail appended, not the text from the keyword on
SeedChunkBatch_tail(line) ==
    LET tail == split_provide(line)[2]
    IN  IF tail # <<>> THEN <<tail>> ELSE <<>>

\* the seed of the accumulator in the batch variant (lines 95-101)
SeedChunkBatch(line) ==
    LET sub == split_provide(line)[1]
    IN  IF sub # <<>> THEN <<sub>> ELSE <<>>

\* lines 92-106 of the batch variant: a trigger line, IDLE -> ACCUMULATING
TriggerEnterBatch ==
    /\ pc = "scan"
    /\ i < n
    /\ IsTrigger(LineAt(i))
    /\ chunk' = SeedChunkBatch(LineAt(i))
    /\ j' = i + 1
    /\ pc' = "accum"
    /\ ev' = "trigger"
    /\ log' = Append(log, <<"scan", i>>)
    /\ UNCHANGED <<raw, lines, i, results, result>>
    /\ UNCHANGED otherVars

\* what read_text_file gives for a path that cannot be read: it raises
F_UNREADABLE == [readable |-> FALSE, content |-> <<>>]

\* what read_text_file gives for a file that holds the lines doc
File(doc) == [readable |-> TRUE, content |-> doc]

\* the files the batches of several files are made of
FilePool ==
    { F_UNREADABLE, File(<<>>), File(<<L_NEG>>),
      File(<<L_TRIG_SHORT, L_LONG, L_CLOSING>>), File(DemoText) }

\* the batches: up to MaxFiles files of FilePool, or one file of up to
\* MaxFileLines lines
Batches ==
    UNION { [1..m -> FilePool] : m \in 1..MaxFiles }
        \cup { <<File(doc)>> : doc \in DocsUpTo(MaxFileLines) }

\* rec.update({'source': str(p)}) (line 235)
WithSource(rec, p) ==
    [value |-> rec.value, alternatives |-> rec.alternatives,
     segments |-> rec.segments, source |-> p]

\* the record of a path that failed (line 238)
ErrorRecord(p) ==
    [source |-> p, error |-> "unreadable", value |-> <<>>,
     alternatives |-> <<>>, segments |-> <<>>]

\* the state when main enters its loop over the paths (line 231)
BatchInit ==
    /\ paths \in Batches
    /\ fpos = 1
    /\ records = <<>>
    /\ bpc = "next"
    /\ EngineIdle
    /\ NormIdle
    /\ ScopeIdle

\* lines 233-234: the file is read and extract_hencha_from_lines is called
BatchReadOk ==
    /\ bpc = "next"
    /\ fpos <= Len(paths)
    /\ paths[fpos].readable
    /\ raw' = paths[fpos].content
    /\ lines' = <<>>
    /\ pc' = "start"
    /\ i' = 0
    /\ j' = 0
    /\ chunk' = <<>>
    /\ results' = <<>>
    /\ result' = EmptyResult
    /\ ev' = "call"
    /\ log' = <<>>
    /\ bpc' = "extract"
    /\ UNCHANGED <<paths, fpos, records>>
    /\ UNCHANGED <<normVars, scopeVars>>

\* the failure of a file ends the loop
BatchReadFail_abort ==
    /\ bpc = "next"
    /\ fpos <= Len(paths)
    /\ ~paths[fpos].readable
    /\ bpc' = "done"
    /\ UNCHANGED <<paths, fpos, records>>
    /\ UNCHANGED <<scanVars, normVars, scopeVars>>

\* lines 233, 237-239: read_text_file raises, the error record is appended
BatchReadFail ==
    /\ bpc = "next"
    /\ fpos <= Len(paths)
    /\ ~paths[fpos].readable
    /\ records' = Append(records, ErrorRecord(fpos))
    /\ fpos' = fpos + 1
    /\ UNCHANGED <<paths, bpc>>
    /\ UNCHANGED <<scanVars, normVars, scopeVars>>

\* lines 234-236: the call has returned, its record is appended
BatchCollect ==
    /\ bpc = "extract"
    /\ pc = "done"
    /\ records' = Append(records, WithSource(result, fpos))
    /\ fpos' = fpos + 1
    /\ bpc' = "next"
    /\ raw' = <<>>
    /\ lines' = <<>>
    /\ pc' = "idle"
    /\ i' = 0
    /\ j' = 0
    /\ chunk' = <<>>
    /\ results' = <<>>
    /\ result' = EmptyResult
    /\ ev' = "idle"
    /\ log' = <<>>
    /\ UNCHANGED paths
    /\ UNCHANGED <<normVars, scopeVars>>

\* line 231 exhausted: the records go to the output (lines 243-263)
BatchEnd ==
    /\ bpc = "next"
    /\ fpos > Len(paths)
    /\ bpc' = "done"
    /\ UNCHANGED <<paths, fpos, records>>
    /\ UNCHANGED <<scanVars, normVars, scopeVars>>

BatchNext ==
    \/ BatchReadOk
    \/ BatchReadFail
    \/ Prepare
    \/ ScanSkip
    \/ TriggerEnterBatch
    \/ AllowBullet
    \/ SoftStop
    \/ NaturalContinue
    \/ DefaultStop
    \/ EndOfDocument
    \/ Return
    \/ BatchCollect
    \/ BatchEnd

BatchSpec == BatchInit /\ [][BatchNext]_vars

(***************************************************************************)
(* The two variants of extract_hencha_from_lines called one after the      *)
(* other on the same lines: src/content.py first, then                     *)
(* src/extract_hencha_batch.py.                                            *)
(***************************************************************************)
\* two triggers, the first discarded by the content variant at a stop
\* header, the second consuming a line
TwinSample == << L_TRIG_EMPTY, L_STOP, L_TRIG_SHORT, L_LONG >>

\* the state at the call of the content variant
TwinInit ==
    /\ raw \in DocsUpTo(MaxTwinLines) \cup {DemoText, TriggerRun, TwinSample}
    /\ lines = <<>>
    /\ pc = "start"
    /\ i = 0
    /\ j = 0
    /\ chunk = <<>>
    /\ results = <<>>
    /\ result = EmptyResult
    /\ ev = "call"
    /\ log = <<>>
    /\ paths = <<>>
    /\ fpos = 0
    /\ records = <<>>
    /\ bpc = "content"
    /\ NormIdle
    /\ ScopeIdle

\* what the variant that has just returned returned, and its log
Outcome == [variant |-> bpc, result |-> result, log |-> log]

\* content.py lines 68-78: the trigger line of the content variant
TwinTriggerContent ==
    /\ bpc = "content"
    /\ TriggerEnter

\* extract_hencha_batch.py lines 92-106: the trigger line of the batch variant
TwinTriggerBatch ==
    /\ bpc = "batch"
    /\ TriggerEnterBatch

\* the content variant has returned; the batch variant is called on the
\* same lines
TwinSwitch ==
    /\ bpc = "content"
    /\ pc = "done"
    /\ records' = Append(records, Outcome)
    /\ bpc' = "batch"
    /\ lines' = <<>>
    /\ pc' = "start"
    /\ i' = 0
    /\ j' = 0
    /\ chunk' = <<>>
    /\ results' = <<>>
    /\ result' = EmptyResult
    /\ ev' = "call"
    /\ log' = <<>>
    /\ UNCHANGED <<raw, paths, fpos>>
    /\ UNCHANGED <<normVars, scopeVars>>

\* the batch variant has returned
TwinEnd ==
    /\ bpc = "batch"
    /\ pc = "done"
    /\ records' = Append(records, Outcome)
    /\ bpc' = "both"
    /\ UNCHANGED <<paths, fpos>>
    /\ UNCHANGED <<scanVars, normVars, scopeVars>>

TwinNext ==
    \/ Prepare
    \/ ScanSkip
    \/ TwinTriggerContent
    \/ TwinTriggerBatch
    \/ AllowBullet
    \/ SoftStop
    \/ NaturalContinue
    \/ DefaultStop
    \/ EndOfDocument
    \/ Return
    \/ TwinSwitch
    \/ TwinEnd

TwinSpec == TwinInit /\ [][TwinNext]_vars

(***************************************************************************)
(* Properties of the scan.                                                 *)
(***************************************************************************)
\* the inner loop is about to apply a rule to the line with index j
AtLine == pc = "accum" /\ j < n

\* C1: every recorded segment has start_line <= end_line, the segments are
\* in strictly increasing start_line order, each starts after the end of the
\* one before it, and the returned segments are the recorded ones
C1_SegmentsOrderedDisjoint ==
    /\ \A k \in 1..Len(results) : results[k].start_line <= results[k].end_line
    /\ \A k \in 1..(Len(results) - 1) :
          /\ results[k + 1].start_line > results[k].start_line
          /\ results[k + 1].start_line > results[k].end_line
    /\ pc = "done" => result.segments = results

\* a returned result with two segments, the first one spanning several lines
C1_Witness ==
    /\ pc = "done"
    /\ Len(result.segments) >= 2
    /\ result.segments[1].end_line > result.segments[1].start_line

\* C2: while ACCUMULATING an allowed-bullet line is appended and the engine
\* stays ACCUMULATING, whatever other shape the line has and whatever follows
C2_AllowBulletConsumed ==
    [][(AtLine /\ ALLOW_BULLET(LineAt(j)))
          => /\ chunk' = Append(chunk, LineAt(j))
             /\ pc' = "accum"
             /\ j' = j + 1
             /\ i' = i
             /\ results' = results]_vars

\* an allowed bullet that is a politeness closing has just been appended, and
\* the line after it is a stop signal
C2_Witness ==
    /\ AtLine
    /\ ev = "allow bullet"
    /\ PolitenessClosing(LineAt(j - 1))
    /\ chunk[Len(chunk)] = LineAt(j - 1)
    /\ should_soft_stop(LineAt(j))
    /\ ~ALLOW_BULLET(LineAt(j))

\* C3: while ACCUMULATING a line that is no allowed bullet and is a stop
\* header, a disallowed bullet or a politeness closing is not appended: the
\* engine returns to IDLE at that line, and the segment recorded for the
\* trigger (if its accumulator is not empty) ends at the line before it
C3_SoftStopNotConsumed ==
    [][(/\ AtLine
        /\ ~ALLOW_BULLET(LineAt(j))
        /\ \/ STOP_HEAD(LineAt(j))
           \/ is_disallowed_bullet(LineAt(j))
           \/ PolitenessClosing(LineAt(j)))
          => /\ pc' = "scan"
             /\ i' = j
             /\ chunk' = chunk
             /\ results' =
                   IF chunk # <<>>
                   THEN Append(results, [start_line |-> i, end_line |-> j - 1,
                                         value |-> Strip(JoinLines(chunk))])
                   ELSE results]_vars

\* a segment of several lines has just been ended by a line that is a
\* politeness closing and neither a stop header nor a bullet
C3_Witness ==
    /\ pc = "scan"
    /\ ev = "soft stop"
    /\ i < n
    /\ PolitenessClosing(LineAt(i))
    /\ ~STOP_HEAD(LineAt(i))
    /\ ~is_disallowed_bullet(LineAt(i))
    /\ results # <<>>
    /\ results[Len(results)].end_line = i - 1
    /\ results[Len(results)].start_line < i - 1

\* C4: a line that contains a negation phrase never triggers: the engine is
\* never ACCUMULATING for it and no segment starts at it
C4_NegatedNeverTriggers ==
    /\ pc = "accum" => ~NEGATION(LineAt(i))
    /\ \A k \in 1..Len(results) : ~NEGATION(LineAt(results[k].start_line))

\* the scan has just passed a line that holds the keyword in trigger shape
\* and a negation phrase, while a segment was recorded elsewhere
C4_Witness ==
    /\ pc = "scan"
    /\ ev = "scan"
    /\ i >= 1
    /\ Contains(LineAt(i - 1), KEYWORD)
    /\ TRIGGER(LineAt(i - 1))
    /\ NEGATION(LineAt(i - 1))
    /\ results # <<>>

\* C5 as stated: no segment starts at a trigger line whose next line is a
\* stop header or a disallowed bullet
C5_StopAfterTriggerDiscards ==
    pc = "done" =>
        \A k \in 1..Len(results) :
            LET next == results[k].start_line + 1
            IN  next < n =>
                    ~(STOP_HEAD(LineAt(next)) \/ is_disallowed_bullet(LineAt(next)))

\* C5 amended: when the line right after a trigger line is a stop header or
\* a disallowed bullet, no following line is consumed; a segment is recorded
\* only if the trigger line's own tail is not empty, and then it is the
\* trigger line alone with that tail as value; the scan goes on at the stop line
C5_StopAfterTriggerKeepsTail ==
    [][(/\ AtLine
        /\ j = i + 1
        /\ STOP_HEAD(LineAt(j)) \/ is_disallowed_bullet(LineAt(j)))
          => /\ pc' = "scan"
             /\ i' = j
             /\ results' =
                   IF tail_after_provide(LineAt(i)) # <<>>
                   THEN Append(results,
                               [start_line |-> i, end_line |-> i,
                                value |-> tail_after_provide(LineAt(i))])
                   ELSE results]_vars

\* a trigger with an empty tail was discarded at a stop header right after
\* it, after an earlier trigger with a tail was recorded at one
C5_Witness ==
    /\ pc = "scan"
    /\ ev = "soft stop"
    /\ j = i
    /\ i >= 3
    /\ STOP_HEAD(LineAt(i))
    /\ IsTrigger(LineAt(i - 1))
    /\ tail_after_provide(LineAt(i - 1)) = <<>>
    /\ Len(results) = 1
    /\ results[1].start_line = 0
    /\ results[1].end_line = 0
    /\ STOP_HEAD(LineAt(1))

\* what the six-line example is said to yield: one segment from the trigger
\* line to the second bullet, the tail joined with both bullets
C6_ExampleAsStated ==
    (raw = SixLineExample /\ pc = "done") =>
        /\ Len(result.segments) = 1
        /\ result.segments[1].start_line = 0
        /\ result.segments[1].end_line = 3
        /\ result.value =
              << <<"zi", "liao", "NL">> \o L_DEMO_BULLET1 \o <<"NL">>
                    \o L_DEMO_BULLET2 >>

\* C6 amended: the six-line example yields exactly one segment, the trigger
\* line alone, whose value is the tail "zi liao"; no other line is in a segment
C6_ExampleResult ==
    (raw = SixLineExample /\ pc = "done") =>
        result = [value |-> << <<"zi", "liao">> >>,
                  alternatives |-> <<>>,
                  segments |-> << [start_line |-> 0, end_line |-> 0,
                                   value |-> <<"zi", "liao">>] >>]

\* the six-line example has been scanned to the end
C6_Witness == raw = SixLineExample /\ pc = "done" /\ n = 6

\* C7: with at least one segment, value is the first segment's value,
\* alternatives are the values of the 2nd and 3rd segments in order, and
\* segments holds every recorded segment, first in document order first
C7_ValueAndAlternatives ==
    (pc = "done" /\ results # <<>>) =>
        /\ result.segments = results
        /\ \A k \in 1..Len(result.segments) :
              result.segments[1].start_line <= result.segments[k].start_line
        /\ result.value = <<result.segments[1].value>>
        /\ Len(result.alternatives) =
              (IF Len(result.segments) - 1 < 2 THEN Len(result.segments) - 1 ELSE 2)
        /\ \A k \in 1..Len(result.alternatives) :
              result.alternatives[k] = result.segments[k + 1].value

\* a result with four segments, the first two with different values
C7_Witness ==
    /\ pc = "done"
    /\ Len(result.segments) = 4
    /\ result.segments[2].value # result.segments[1].value

\* C8: the call never ends in an error; a document without lines, a document
\* without a trigger line and a document none of whose triggers recorded a
\* segment all return value = None, alternatives = [], segments = []
C8_EmptyResultNoError ==
    /\ pc # "error"
    /\ pc = "done" =>
          /\ (n = 0 \/ (\A k \in 0..(n - 1) : ~IsTrigger(LineAt(k))) \/ results = <<>>)
                => result = EmptyResult
          /\ (n = 0 \/ \A k \in 0..(n - 1) : ~IsTrigger(LineAt(k)))
                => results = <<>>

\* a document with blank lines and a trigger line has returned with no segment
C8_Witness ==
    /\ pc = "done"
    /\ results = <<>>
    /\ Len(raw) > n
    /\ \E k \in 0..(n - 1) : IsTrigger(LineAt(k))

\* C9: normalize_text is idempotent
C9_NormalizeIdempotent == npc = "twice" => twice = once

\* one outer or inner step of the scan moves its cursor forward
CursorAdvances ==
    /\ (pc = "scan" /\ pc' = "scan") => i' = i + 1
    /\ (pc = "scan" /\ pc' = "accum") => (i' = i /\ j' = i + 1)
    /\ (pc = "accum" /\ pc' = "accum") => (j < n /\ j' = j + 1 /\ i' = i)
    /\ (pc = "accum" /\ pc' = "scan") => (i' = j /\ i' >= i + 1)
    /\ (pc = "accum" /\ j >= n) => pc' = "scan"
    /\ (pc' \in {"scan", "accum"}) => (i' <= Len(lines') /\ j' <= Len(lines'))

\* C10: the scan terminates: every step moves a cursor forward (the outer
\* cursor by one on a non-trigger line and to the index after the last
\* consumed line, at least trigger index + 1, on a trigger line), the engine
\* leaves ACCUMULATING at the end of the document, and the call returns
C10_ScanTerminates == [][CursorAdvances]_vars /\ <>(pc = "done")

\* the call has returned after a trigger whose segment consumed a line
C10_Witness ==
    /\ pc = "done"
    /\ ev = "return"
    /\ i = n
    /\ n >= 2
    /\ \E k \in 1..Len(results) : results[k].end_line > results[k].start_line

(***************************************************************************)
(* Properties of the continuation rules.                                   *)
(***************************************************************************)
\* the text after the first occurrence of the keyword in line
PostKeyword(line) == Drop(line, Find(line, KEYWORD) + Len(KEYWORD))

\* C11 as stated: the seeded tail never begins with a connective word
C11_SeedNeverConnective ==
    (pc = "accum" /\ ev = "trigger" /\ chunk # <<>>) =>
        ~\E w \in CONNECTIVES : OccursAt(chunk[1], w, 1)

\* C11 amended: on entering ACCUMULATING the accumulator holds at most the
\* same-line tail: the text after the first occurrence of the keyword, less
\* ONE leading connective word (when the text begins with one), less the
\* leading punctuation and blanks, trimmed; the tail may itself begin with a
\* connective word; an empty tail seeds an empty accumulator
C11_SeedIsTail ==
    (pc = "accum" /\ ev = "trigger") =>
        LET post == PostKeyword(LineAt(i))
            skip == IF \E w \in CONNECTIVES : OccursAt(post, w, 1) THEN 2 ELSE 0
            tail == Strip(LStripSet(Drop(post, skip + 1), TAIL_LSTRIP))
        IN  /\ j = i + 1
            /\ chunk = IF tail = <<>> THEN <<>> ELSE <<tail>>

\* the trigger line of the demo text, which ends in "ti gong xia lie zi liao",
\* has seeded the accumulator with "zi liao"
C11_Witness ==
    /\ pc = "accum"
    /\ ev = "trigger"
    /\ PostKeyword(LineAt(i)) = <<"xia", "lie", "zi", "liao">>
    /\ chunk = << <<"zi", "liao">> >>

\* cur is neither an allowed bullet nor a soft stop
Undecided(cur) ==
    /\ ~ALLOW_BULLET(cur)
    /\ ~STOP_HEAD(cur)
    /\ ~is_disallowed_bullet(cur)
    /\ ~PolitenessClosing(cur)

\* prev ends with one of , : ; and their ideographic forms
EndsWithPunct(prev) == prev # <<>> /\ prev[Len(prev)] \in CONT_PUNCT

\* C12: while ACCUMULATING the line before the current one is the trigger
\* line or the last appended line, and a line that is neither an allowed
\* bullet nor a soft stop is appended, the engine staying ACCUMULATING, if and
\* only if that line ends with a continuation punctuation mark or the
\* current line has at least 8 characters
C12_NaturalContinuation ==
    /\ [](pc = "accum" =>
            /\ j >= i + 1
            /\ j > i + 1 => chunk[Len(chunk)] = LineAt(j - 1))
    /\ [][(AtLine /\ Undecided(LineAt(j)))
            => IF EndsWithPunct(LineAt(j - 1)) \/ Len(LineAt(j)) >= 8
               THEN /\ chunk' = Append(chunk, LineAt(j))
                    /\ pc' = "accum"
                    /\ j' = j + 1
                    /\ results' = results
               ELSE /\ chunk' = chunk
                    /\ pc' = "scan"]_vars

\* a line shorter than 8 characters has just been appended after a line that
\* ends with a punctuation mark
C12_Witness ==
    /\ pc = "accum"
    /\ ev = "continue"
    /\ Len(LineAt(j - 1)) < 8
    /\ chunk[Len(chunk)] = LineAt(j - 1)
    /\ EndsWithPunct(LineAt(j - 2))

\* the default rule applies to cur after prev
DefaultCase(prev, cur) ==
    /\ Undecided(cur)
    /\ Len(cur) < 8
    /\ ~EndsWithPunct(prev)

\* C13: while ACCUMULATING a line the default rule applies to ends the segment
\* without being appended: the segment recorded (if the accumulator is not
\* empty) ends at the line before it, and no segment ever holds such a line
\* among its consumed lines
C13_DefaultStopNotConsumed ==
    /\ [](\A k \in 1..Len(results) :
            \A m \in (results[k].start_line + 1)..results[k].end_line :
                ~DefaultCase(LineAt(m - 1), LineAt(m)))
    /\ [][(AtLine /\ DefaultCase(LineAt(j - 1), LineAt(j)))
            => /\ pc' = "scan"
               /\ chunk' = chunk
               /\ i' = j
               /\ results' =
                     IF chunk # <<>>
                     THEN Append(results, [start_line |-> i, end_line |-> j - 1,
                                           value |-> Strip(JoinLines(chunk))])
                     ELSE results]_vars

\* a segment of two lines has just been ended by a short line under the
\* default rule
C13_Witness ==
    /\ pc = "scan"
    /\ ev = "end segment"
    /\ i < n
    /\ DefaultCase(LineAt(i - 1), LineAt(i))
    /\ results # <<>>
    /\ results[Len(results)].end_line = i - 1
    /\ results[Len(results)].start_line = i - 2

\* C14: the accumulator is not empty exactly when the same-line tail is not
\* empty or a line was consumed; every recorded segment has a non-empty
\* value; leaving ACCUMULATING records one segment for the trigger when the
\* accumulator is not empty and none when it is empty, and the outer cursor
\* moves past the trigger line either way
C14_SegmentOnlyIfNonEmpty ==
    /\ [](/\ \A k \in 1..Len(results) : results[k].value # <<>>
          /\ pc = "accum" =>
                (chunk # <<>> <=>
                    (tail_after_provide(LineAt(i)) # <<>> \/ j > i + 1)))
    /\ [][(pc = "accum" /\ pc' = "scan")
            => /\ i' >= i + 1
               /\ IF chunk = <<>>
                  THEN results' = results
                  ELSE /\ Len(results') = Len(results) + 1
                       /\ SubSeq(results', 1, Len(results)) = results
                       /\ results'[Len(results')].start_line = i]_vars

\* after one segment was recorded, a trigger with an empty tail at the last
\* line of the document has been discarded
C14_Witness ==
    /\ pc = "scan"
    /\ ev = "end of document"
    /\ chunk = <<>>
    /\ i = n
    /\ IsTrigger(LineAt(n - 1))
    /\ Len(results) = 1

\* C15: when a segment ends before the end of the document, at line k, the
\* outer scan resumes at k; a line the scan is at that qualifies as a trigger
\* enters ACCUMULATING at that line; so a qualifying line right after a
\* segment starts the next segment (when its own tail is not empty)
C15_ResumeAtStopLine ==
    /\ [][(pc = "accum" /\ pc' = "scan" /\ j < n) => i' = j]_vars
    /\ [][(pc = "scan" /\ i < n /\ IsTrigger(LineAt(i)))
            => (pc' = "accum" /\ i' = i /\ j' = i + 1)]_vars
    /\ [](pc = "done" =>
            \A m \in 1..Len(results) :
                LET k == results[m].end_line + 1
                IN  (k < n /\ IsTrigger(LineAt(k))
                        /\ tail_after_provide(LineAt(k)) # <<>>)
                    => /\ m < Len(results)
                       /\ results[m + 1].start_line = k)

\* a disallowed bullet that holds the keyword has ended one segment and
\* started the next one at its own line
C15_Witness ==
    /\ pc = "done"
    /\ Len(results) >= 2
    /\ results[2].start_line = results[1].end_line + 1
    /\ is_disallowed_bullet(LineAt(results[2].start_line))
    /\ IsTrigger(LineAt(results[2].start_line))

(***************************************************************************)
(* Properties of the sentence extractor.                                   *)
(***************************************************************************)
\* the character at position q of the text is a delimiter
IsDelim(q) == \E k \in 1..Len(delims) : text[q + 1] = delims[k]

\* bs = <<start, end>> are the sentence bounds of the hit span: start is the
\* position after the nearest delimiter strictly before the hit (0 without
\* one), end is the nearest delimiter at or after the end of the hit (the
\* last position of the text without one)
NearestBounds(bs, span) ==
    /\ IF \E q \in 0..(span[1] - 1) : IsDelim(q)
       THEN /\ bs[1] >= 1
            /\ bs[1] - 1 < span[1]
            /\ IsDelim(bs[1] - 1)
            /\ \A q \in bs[1]..(span[1] - 1) : ~IsDelim(q)
       ELSE bs[1] = 0
    /\ IF \E q \in span[2]..(Len(text) - 1) : IsDelim(q)
       THEN /\ bs[2] >= span[2]
            /\ IsDelim(bs[2])
            /\ \A q \in span[2]..(bs[2] - 1) : ~IsDelim(q)
       ELSE bs[2] = Len(text) - 1
    /\ bs[1] <= span[1]
    /\ span[2] - 1 <= bs[2]

\* C16: for every keyword hit of the text, find_sentence_bounds returns the
\* position after the nearest delimiter strictly before the hit (0 if none)
\* and the position of the nearest delimiter at or after its end (the last
\* position if none), so start <= s and e - 1 <= end; the record a processed
\* hit is listed in carries these bounds
C16_SentenceBounds ==
    spc \in {"loop", "done"} =>
        \A k \in 1..Len(matches) :
            /\ NearestBounds(find_sentence_bounds(text, matches[k], delims),
                             matches[k])
            /\ k < mpos =>
                  \E r \in 1..Len(sentence_index_map) :
                      /\ \E q \in 1..Len(sentence_index_map[r].match_spans) :
                            sentence_index_map[r].match_spans[q] = matches[k]
                      /\ NearestBounds(<<sentence_index_map[r].start,
                                         sentence_index_map[r].end>>, matches[k])

\* a sentence was returned that lies between two delimiters, with a
\* delimiter of another kind farther to its right
C16_Witness ==
    /\ spc = "done"
    /\ \E r \in 1..Len(sentences) :
          /\ sentences[r].start > 0
          /\ sentences[r].end < Len(text) - 1
          /\ IsDelim(sentences[r].end)
          /\ \E q \in (sentences[r].end + 1)..(Len(text) - 1) :
                IsDelim(q) /\ text[q + 1] # text[sentences[r].end + 1]

\* the records so far: the map while the loop runs, the returned list after
ScopeRecords == IF spc = "done" THEN sentences ELSE sentence_index_map

RECURSIVE InnerStop(_, _)
\* the index at which the inner loop, started at index jj of ls, stops
InnerStop(ls, jj) ==
    IF jj >= Len(ls) THEN jj
    ELSE IF Branch(ls[jj], ls[jj + 1]) \in {"allow bullet", "continue"}
         THEN InnerStop(ls, jj + 1)
         ELSE jj

RECURSIVE ScanFrom(_, _)
\* the segments of the lines ls from index ii on, in the batch variant
ScanFrom(ls, ii) ==
    IF ii >= Len(ls) THEN <<>>
    ELSE IF IsTrigger(ls[ii + 1])
         THEN LET stop == InnerStop(ls, ii + 1)
                  ch == SeedChunkBatch(ls[ii + 1]) \o SubSeq(ls, ii + 2, stop)
              IN  (IF ch # <<>>
                   THEN << [start_line |-> ii, end_line |-> stop - 1,
                            value |-> Strip(JoinLines(ch))] >>
                   ELSE <<>>) \o ScanFrom(ls, stop)
         ELSE ScanFrom(ls, ii + 1)

\* the result of the file doc when it is the only file there is
AloneResult(doc) ==
    LET rs == ScanFrom(PrepareLines(doc), 0)
    IN  IF rs = <<>> THEN EmptyResult
        ELSE [value |-> <<rs[1].value>>,
              alternatives |-> [k \in 1..Len(Slice(rs, 1, 3)) |-> Slice(rs, 1, 3)[k].value],
              segments |-> rs]

\* the record of the path at place k: of its own file alone, or of its failure
RecordOf(k) ==
    IF paths[k].readable
    THEN Eval(AloneResult(paths[k].content),
              LAMBDA res : [value |-> res.value,
                            alternatives |-> res.alternatives,
                            segments |-> res.segments,
                            source |-> k])
    ELSE [source |-> k, error |-> "unreadable", value |-> <<>>,
          alternatives |-> <<>>, segments |-> <<>>]

C20_BatchValueHoldsKeyword ==
    /\ [](/\ \A k \in 1..Len(results) :
                /\ OccursAt(results[k].value, KEYWORD, 1)
                /\ results[k].value =
                      JoinLines(
                          << Drop(LineAt(results[k].start_line),
                                  Find(LineAt(results[k].start_line), KEYWORD)) >>
                              \o SubSeq(lines, results[k].start_line + 2,
                                        results[k].end_line + 1))
          /\ \A r \in 1..Len(records) :
                \A k \in 1..Len(records[r].segments) :
                    OccursAt(records[r].segments[k].value, KEYWORD, 1))
    /\ [][(pc = "accum" /\ pc' = "scan")
            => /\ Len(results') = Len(results) + 1
               /\ results'[Len(results')].start_line = i]_vars

\* a trigger line with nothing after its connective word has yielded a
\* segment of its own, "ti gong ru xia :", ended by the line after it
C20_Witness ==
    /\ bpc = "extract"
    /\ pc = "scan"
    /\ i < n
    /\ results # <<>>
    /\ results[Len(results)].value = <<"ti", "gong", "ru", "xia", ":">>
    /\ results[Len(results)].end_line = i - 1

(***************************************************************************)
(* Properties of the whole scan: work, consumed trigger lines, the two     *)
(* variants side by side.                                                  *)
(***************************************************************************)
\* the entries of the log that report a trigger test of line k
ScanEntries(k) == { q \in 1..Len(log) : log[q] = <<"scan", k>> }

\* the entries of the log that report a continuation rule applied to line k
RuleEntries(k) == { q \in 1..Len(log) : log[q][1] # "scan" /\ log[q][2] = k }

\* the reports of a rule that ends the segment without appending the line
STOP_REPORTS == {"soft stop", "end by disallowed bullet", "end segment"}

\* what the continuation rules decide for cur after prev, from these two
\* lines alone
Verdict(prev, cur) ==
    IF ALLOW_BULLET(cur) THEN "allow bullet"
    ELSE IF STOP_HEAD(cur) \/ is_disallowed_bullet(cur) \/ PolitenessClosing(cur)
         THEN "soft stop"
         ELSE IF EndsWithPunct(prev) \/ Len(cur) >= 8
              THEN "continue"
              ELSE "end segment"

\* line k is a consumed line of a recorded segment or of the accumulator
Consumed(k) ==
    \/ \E m \in 1..Len(results) :
          results[m].start_line < k /\ k <= results[m].end_line
    \/ pc = "accum" /\ i < k /\ k < j

\* C21: over a scan every line index is tested as a trigger candidate at
\* most once and has a continuation rule applied to it at most once; a line
\* has both only when the rule ended a segment at it without consuming it,
\* and then the rule came first; so the log never holds more than 2n
\* entries; a step looks at one line at most, and every rule decision is a
\* function of the current line and the line directly before it
C21_LinearWork ==
    /\ [](/\ Len(log) <= 2 * n
          /\ \A q \in 1..Len(log) : log[q][2] \in 0..(n - 1)
          /\ \A k \in 0..(n - 1) :
                /\ Cardinality(ScanEntries(k)) <= 1
                /\ Cardinality(RuleEntries(k)) <= 1
                /\ (ScanEntries(k) # {} /\ RuleEntries(k) # {}) =>
                      /\ \A q \in RuleEntries(k) :
                            /\ log[q][1] \in STOP_REPORTS
                            /\ \A r \in ScanEntries(k) : q < r
                      /\ ~Consumed(k))
    /\ [][log' # log =>
            /\ Len(log') = Len(log) + 1
            /\ SubSeq(log', 1, Len(log)) = log
            /\ IF log'[Len(log')][1] = "scan"
               THEN /\ pc = "scan"
                    /\ log'[Len(log')][2] = i
               ELSE /\ AtLine
                    /\ j >= 1
                    /\ log'[Len(log')][2] = j
                    /\ log'[Len(log')][1] = Verdict(LineAt(j - 1), LineAt(j))]_vars

\* a document of four lines has been scanned with 2n - 1 entries: every line
\* was tested as a trigger, and every line but the first ended the segment
\* of the line before it
C21_Witness ==
    /\ pc = "done"
    /\ n = 4
    /\ Len(log) = 2 * n - 1
    /\ \A k \in 1..(n - 1) : ScanEntries(k) # {} /\ RuleEntries(k) # {}

\* line k holds the keyword and no negation phrase
Qualifies(k) == Contains(LineAt(k), KEYWORD) /\ ~NEGATION(LineAt(k))

\* cur, evaluated after prev while ACCUMULATING, is an allowed bullet, or is
\* no soft stop and has at least 8 characters or follows a line that ends
\* with a continuation punctuation mark
Absorbed(prev, cur) ==
    \/ ALLOW_BULLET(cur)
    \/ /\ ~STOP_HEAD(cur)
       /\ ~is_disallowed_bullet(cur)
       /\ ~PolitenessClosing(cur)
       /\ Len(cur) >= 8 \/ EndsWithPunct(prev)

\* C22: a consumed line is never tested as a trigger candidate and starts no
\* segment; a qualifying trigger line evaluated while ACCUMULATING that is an
\* allowed bullet, or is no soft stop and has at least 8 characters or
\* follows a line ending in continuation punctuation, is appended; every
\* segment starts at a qualifying trigger line of its own, so the call
\* returns at most as many segments as there are qualifying trigger lines
C22_ConsumedTriggerStartsNothing ==
    /\ [](/\ \A q \in 1..Len(log) :
                log[q][1] = "scan" => ~Consumed(log[q][2])
          /\ \A m \in 1..Len(results) :
                /\ ~Consumed(results[m].start_line)
                /\ Qualifies(results[m].start_line)
          /\ \A m \in 1..(Len(results) - 1) :
                results[m].start_line < results[m + 1].start_line
          /\ pc = "done" =>
                Len(results) <= Cardinality({ k \in 0..(n - 1) : Qualifies(k) }))
    /\ [][(AtLine /\ Qualifies(j) /\ Absorbed(LineAt(j - 1), LineAt(j)))
            => /\ chunk' = Append(chunk, LineAt(j))
               /\ pc' = "accum"
               /\ i' = i
               /\ j' = j + 1
               /\ results' = results]_vars

\* a document of four qualifying trigger lines has returned one segment: the
\* second line was consumed after a colon, the third as an allowed bullet,
\* the fourth for its 11 characters, and none of them was tested as a trigger
C22_Witness ==
    /\ pc = "done"
    /\ n = 4
    /\ \A k \in 0..3 : Qualifies(k)
    /\ Len(results) = 1
    /\ results[1].start_line = 0
    /\ results[1].end_line = 3
    /\ Len(LineAt(1)) < 8 /\ ~ALLOW_BULLET(LineAt(1)) /\ EndsWithPunct(LineAt(0))
    /\ ALLOW_BULLET(LineAt(2))
    /\ Len(LineAt(3)) >= 8 /\ ~ALLOW_BULLET(LineAt(3)) /\ ~EndsWithPunct(LineAt(2))
    /\ \A k \in 1..3 : ScanEntries(k) = {}

\* the segment seg has the lines of a segment of segs
HasTwin(seg, segs) ==
    \E m \in 1..Len(segs) :
        /\ segs[m].start_line = seg.start_line
        /\ segs[m].end_line = seg.end_line

\* the indices the log l reports as tested and found to be a trigger
EnteredIn(l) ==
    { l[q][2] : q \in { r \in 1..Len(l) : l[r][1] = "scan" /\ Qualifies(l[r][2]) } }

\* C23: on the same lines the batch variant looks at the same lines in the
\* same order as the content variant and takes the same decision at each
\* (the same trigger lines, the same stop lines); every segment of the
\* content variant has a segment of the batch variant with the same
\* start_line and end_line; the batch variant has one segment for every
\* trigger line entered, and its segments without a counterpart are exactly
\* the triggers whose accumulator is empty in the content variant: an empty
\* same-line tail and no consumed line
C23_VariantsStepTogether ==
    /\ bpc = "batch" => log = SubSeq(records[1].log, 1, Len(log))
    /\ bpc = "both" =>
          LET c == records[1].result.segments
              b == records[2].result.segments
          IN  /\ records[1].variant = "content"
              /\ records[2].variant = "batch"
              /\ records[2].log = records[1].log
              /\ \A m \in 1..Len(c) : HasTwin(c[m], b)
              /\ { b[m].start_line : m \in 1..Len(b) } = EnteredIn(records[1].log)
              /\ Len(b) = Cardinality(EnteredIn(records[1].log))
              /\ \A m \in 1..Len(b) :
                    ~HasTwin(b[m], c) <=>
                        /\ tail_after_provide(LineAt(b[m].start_line)) = <<>>
                        /\ b[m].end_line = b[m].start_line

\* both variants have returned: the content variant one segment of two
\* lines, the batch variant that segment and one more, for the trigger the
\* content variant discarded
C23_Witness ==
    /\ bpc = "both"
    /\ Len(records[1].result.segments) = 1
    /\ Len(records[2].result.segments) = 2
    /\ records[1].result.segments[1].end_line
          > records[1].result.segments[1].start_line
    /\ HasTwin(records[1].result.segments[1], <<records[2].result.segments[2]>>)
    /\ records[2].result.segments[1].end_line = records[2].result.segments[1].start_line

(***************************************************************************)
(* Properties of the sentence records taken together.                      *)
(***************************************************************************)
\* of any two records, those with the same start have the same end and the
\* one that starts later starts after the end of the other
RecordsDisjoint(recs) ==
    \A r1, r2 \in 1..Len(recs) :
        /\ recs[r1].start = recs[r2].start => recs[r1].end = recs[r2].end
        /\ recs[r1].start < recs[r2].start => recs[r1].end < recs[r2].start

\* no keyword hit of the text holds a delimiter character
NoDelimInHit ==
    \A k \in 1..Len(matches) :
        \A q \in matches[k][1]..(matches[k][2] - 1) : ~IsDelim(q)

\* C24 as stated: for every text the intervals of the records are pairwise
\* disjoint
C24_RecordsDisjoint ==
    spc \in {"loop", "done"} => RecordsDisjoint(ScopeRecords)

\* C24 amended: when no keyword hit of the text holds a delimiter character
\* (so for every text under the default delimiters) the intervals of the
\* records are pairwise disjoint: the same start goes with the same end, a
\* later record starts after the earlier record's end, and in the returned
\* list each record ends before the next one starts
C24_DisjointUnlessDelimInHit ==
    (spc \in {"loop", "done"} /\ NoDelimInHit) =>
        /\ RecordsDisjoint(ScopeRecords)
        /\ spc = "done" =>
              \A r \in 1..(Len(sentences) - 1) :
                  sentences[r].end < sentences[r + 1].start

\* under delimiters of which one occurs in keywords, two records were
\* returned for a text none of whose hits holds a delimiter; the first
\* sentence ends at that delimiter, the second starts right after it
C24_Witness ==
    /\ spc = "done"
    /\ delims = KEYWORD_DELIMS
    /\ NoDelimInHit
    /\ Len(sentences) = 2
    /\ text[sentences[1].end + 1] = "fan"
    /\ sentences[2].start = sentences[1].end + 1

(***************************************************************************)
(* Properties of the trigger test and of the rule order.                   *)
(***************************************************************************)
\* C25: the shape test rejects no line: every line that holds the keyword
\* matches TRIGGER; so the line the scan is at triggers (the engine enters
\* ACCUMULATING at it) if and only if it holds the keyword and no negation
\* phrase
C25_ShapeNeverRejects ==
    /\ [](/\ \A k \in 1..Len(raw) :
                Contains(raw[k], KEYWORD) => TRIGGER(raw[k])
          /\ \A k \in 0..(n - 1) :
                Contains(LineAt(k), KEYWORD) => TRIGGER(LineAt(k)))
    /\ [][(pc = "scan" /\ i < n)
            => /\ pc' \in {"scan", "accum"}
               /\ pc' = "accum" <=>
                     (Contains(LineAt(i), KEYWORD) /\ ~NEGATION(LineAt(i)))]_vars

\* a line has triggered that holds the keyword after another character, no
\* request marker and no connective word
C25_Witness ==
    /\ pc = "accum"
    /\ ev = "trigger"
    /\ Find(LineAt(i), KEYWORD) > 1
    /\ \A q \in 1..Len(LineAt(i)) : LineAt(i)[q] \notin {"qing", "hui", "jing"}
    /\ \A w \in CONNECTIVES : ~Contains(LineAt(i), w)

\* the reports of the branches behind the soft-stop rule (lines 97-113)
RULE3_REPORTS == {"continue", "end by disallowed bullet", "end segment"}

\* C26: no line ever ends a segment through the disallowed-bullet check of
\* the natural-continuation rule: a disallowed bullet that is no allowed
\* bullet is stopped by the soft-stop rule; whenever the inner loop gets
\* past the soft-stop rule the line is neither a disallowed bullet nor a
\* stop header, so the stop-header condition of rule 3 is true
C26_Rule3BulletCheckDead ==
    /\ [](/\ ev # "end by disallowed bullet"
          /\ \A q \in 1..Len(log) : log[q][1] # "end by disallowed bullet")
    /\ [][(AtLine /\ is_disallowed_bullet(LineAt(j)) /\ ~ALLOW_BULLET(LineAt(j)))
            => (ev' = "soft stop" /\ pc' = "scan" /\ chunk' = chunk)]_vars
    /\ [][(AtLine /\ ev' \in RULE3_REPORTS)
            => /\ ~is_disallowed_bullet(LineAt(j))
               /\ ~STOP_HEAD(LineAt(j))]_vars

\* a disallowed bullet that follows a line ending in a colon, and so meets
\* the condition of the natural-continuation rule, has just ended a segment
\* by the soft-stop rule; it is neither a stop header nor a closing
C26_Witness ==
    /\ pc = "scan"
    /\ ev = "soft stop"
    /\ i >= 1
    /\ i < n
    /\ is_disallowed_bullet(LineAt(i))
    /\ ~STOP_HEAD(LineAt(i))
    /\ ~PolitenessClosing(LineAt(i))
    /\ EndsWithPunct(LineAt(i - 1))
    /\ results # <<>>
    /\ results[Len(results)].end_line = i - 1

=============================================================================
